---- MODULE Spec2Model ----
(***************************************************************************)
(* The JourneyUI chat component (src/unnamed/part_003, lines 1-296) and    *)
(* the DataVisualization component it renders.                             *)
(*                                                                         *)
(* The component is an event-driven state machine: React state cells, the  *)
(* localStorage slot 'querySessionId', and the async handlers that are     *)
(* suspended at an await (one record per suspended invocation, holding     *)
(* the values its closure captured).  One action is one synchronous        *)
(* stretch of handler code: from an event, or from the resolution of an    *)
(* awaited fetch, up to the next await of a network call.                  *)
(***************************************************************************)
EXTENDS Integers, Sequences, FiniteSets, TLC

\* Bounds of the exploration: invocations of callBackendAPI and of the
\* clear-context call in one behaviour.
MaxTurns == 3
MaxClears == 1

\* Bound of the clock: Date.now() reads 0..MaxClock milliseconds after the
\* component mounted.
MaxClock == 2

\* JS null / undefined / an absent localStorage item.
NULL == "<null>"

VARIABLES
  userInput,          \* useState<string>("")                    line 31
  isLoading,          \* useState<boolean>(false)                line 33
  chatHistory,        \* useState<ChatMessage[]>([])             line 34
  sessionId,          \* useState<string>("")                    line 35
  error,              \* useState<string | null>(null)           line 36
  followUpQuestions,  \* useState<string[]>([])                  line 37
  querySessionId,     \* localStorage item 'querySessionId'
  calls,              \* callBackendAPI invocations suspended at an await:
                      \*   turn, query, sid (the sessionId its closure
                      \*   captured), pc (the await it is at), form (called
                      \*   by handleSubmit), idle (no backend operation was
                      \*   in progress when it was called), status (the
                      \*   status shown when it was called), at (index of its
                      \*   user message in chatHistory)
  clears,             \* clearChat invocations suspended at the fetch
  turn,               \* number of callBackendAPI invocations so far
  nClears,            \* number of clear-context calls issued so far
  last,               \* the handler stretch that produced this state
  now,                \* the wall clock: what Date.now() returns
  vizData,            \* the data prop of a DataVisualization element
  vizOut              \* what that element rendered

vars == <<userInput, isLoading, chatHistory, sessionId, error,
          followUpQuestions, querySessionId, calls, clears, turn, nClears,
          last, now, vizData, vizOut>>

\* The DataVisualization element of the visualization specification.
viz == <<vizData, vizOut>>

----------------------------------------------------------------------------
(* Values *)

\* JS falsiness of a string-or-null value.
Falsy(s) == s = NULL \/ s = ""

\* a || b on string-or-null values.
OrElse(a, b) == IF Falsy(a) THEN b ELSE a

\* The texts a user can have in the input box.
Inputs == {"", " ", "q"}

\* String.prototype.trim on the texts of Inputs and of the follow-ups
\* ("f"): only " " has white space to lose.
Trim(s) == IF s = " " THEN "" ELSE s

SessionIds == {"A", "B"}

\* Replies of POST /query: the fetch rejects, or resolves to a response
\* with an ok flag, a status and a JSON body.
QueryReplies ==
  {[rejected |-> TRUE, message |-> "Failed to fetch"]}
  \cup {[rejected |-> FALSE, ok |-> FALSE, status |-> "500",
         data |-> [success |-> FALSE, error |-> NULL,
                   session_id |-> NULL, explanation |-> NULL]]}
  \cup {[rejected |-> FALSE, ok |-> TRUE, status |-> "200",
         data |-> [success |-> FALSE, error |-> e,
                   session_id |-> NULL, explanation |-> NULL]]
          : e \in {NULL, "bad query"}}
  \cup {[rejected |-> FALSE, ok |-> TRUE, status |-> "200",
         data |-> [success |-> TRUE, error |-> NULL,
                   session_id |-> s, explanation |-> x]]
          : s \in {NULL} \cup SessionIds, x \in {"answer"}}

\* Replies of POST /followup; followup_questions may be absent.
FollowUpReplies ==
  {[rejected |-> TRUE]}
  \cup {[rejected |-> FALSE, data |-> [success |-> b]] : b \in BOOLEAN}
  \cup {[rejected |-> FALSE,
         data |-> [success |-> b, followup_questions |-> qs]]
          : b \in BOOLEAN, qs \in {<<>>, <<"f">>}}

\* Replies of POST /clear-context.
ClearReplies ==
  {[rejected |-> TRUE, message |-> "Failed to fetch"]}
  \cup {[rejected |-> FALSE, ok |-> o,
         data |-> [success |-> s, error |-> e]]
          : o \in BOOLEAN, s \in BOOLEAN, e \in {NULL, "no such session"}}

----------------------------------------------------------------------------
(* Helpers of the component *)

\* Chat messages (lines 90-94, 126-131, 139-143), with the ids they take
\* from Date.now().
UserMessage(q) ==
  [id |-> now, type |-> "user", content |-> q, responseData |-> FALSE]

SystemMessage(data) ==
  [id |-> now + 1,
   type |-> "system",
   content |-> OrElse(data.explanation, "Query processed successfully"),
   responseData |-> TRUE]

ErrorMessage(text) ==
  [id |-> now, type |-> "system", content |-> text, responseData |-> FALSE]

\* Variant of handleApiError that drops the thrown message.
handleApiErrorGeneric(message) == "An error occurred"

\* handleApiError (lines 53-60) on a thrown Error with this message: the
\* text it puts in the error state and returns.
handleApiError(message) == OrElse(message, "An error occurred")

\* The effect of lines 42-51 runs after a render in which chatHistory or
\* isLoading changed: a stored id replaces the held one.
useEffect(changed, sid, stored) ==
  IF changed /\ ~Falsy(stored) THEN stored ELSE sid

\* Message of the Error thrown in the try block of callBackendAPI
\* (lines 98-117), NULL when nothing is thrown.
QueryThrown(reply) ==
  IF reply.rejected THEN reply.message
  ELSE IF ~reply.ok THEN "API request failed with status " \o reply.status
  ELSE IF ~reply.data.success
       THEN OrElse(reply.data.error, "Failed to process query")
  ELSE NULL

\* Variant of Adopts that adopts an id only for an invocation that
\* captured none.
AdoptsWhenNoneHeld(data, capturedSid) ==
  ~Falsy(data.session_id) /\ Falsy(capturedSid)

\* Line 121: the response's id is adopted when it is truthy and differs
\* from the sessionId the invocation's closure captured.
Adopts(data, capturedSid) ==
  ~Falsy(data.session_id) /\ data.session_id # capturedSid

\* Variant of ClearThrown that tests response.ok only.
ClearThrownIgnoresSuccess(reply) ==
  IF reply.rejected THEN reply.message
  ELSE IF ~reply.ok THEN OrElse(reply.data.error, "Failed to clear chat")
  ELSE NULL

\* Message of the Error thrown in the try block of clearChat
\* (lines 156-170), NULL when nothing is thrown.
ClearThrown(reply) ==
  IF reply.rejected THEN reply.message
  ELSE IF ~reply.ok \/ ~reply.data.success
       THEN OrElse(reply.data.error, "Failed to clear chat")
  ELSE NULL

\* Variant of NoSession without the early return.
NoSessionIgnored(sid) == FALSE

\* Line 152: clearChat returns at once when no session id is held.
NoSession(sid) == Falsy(sid)

\* Lines 68-73: the body of the POST /followup request of invocation c.
\* fetchFollowUpQuestions belongs to the render callBackendAPI was called
\* in, so its sessionId is the one that invocation captured.
FollowUpRequest(c) == [session_id |-> c.sid, query |-> c.query]

\* Lines 75-82: what fetchFollowUpQuestions does with a reply.
FollowUpOutcome(reply) ==
  IF reply.rejected THEN "catch"
  ELSE IF reply.data.success /\ "followup_questions" \in DOMAIN reply.data
       THEN "set"
  ELSE "keep"

\* What the render shows (lines 215-223, 247-261, 272-290).
ClearButtonEnabled == ~Falsy(sessionId) /\ ~isLoading
InputEnabled == ~isLoading
SendEnabled == ~Falsy(Trim(userInput)) /\ ~isLoading
FollowUpButtons ==
  IF \E i \in DOMAIN chatHistory : chatHistory[i].type = "system"
  THEN {followUpQuestions[i] : i \in DOMAIN followUpQuestions}
  ELSE {}

\* No backend operation of the session is in progress.
Idle == ~isLoading /\ calls = {} /\ clears = {}

\* The status the render shows: the spinner (line 265), else the error
\* banner (line 228), else neither.
Status ==
  IF isLoading THEN "Awaiting"
  ELSE IF ~Falsy(error) THEN "Error"
  ELSE "Idle"

----------------------------------------------------------------------------
(* Initial state: the component mounted, the mount effect done. *)

Init ==
  /\ userInput = ""
  /\ isLoading = FALSE
  /\ chatHistory = <<>>
  /\ querySessionId \in {NULL, "A"}
  /\ sessionId = useEffect(TRUE, "", querySessionId)
  /\ error = NULL
  /\ followUpQuestions = <<>>
  /\ calls = {}
  /\ clears = {}
  /\ turn = 0
  /\ nClears = 0
  /\ last = [op |-> "mount", t |-> 0]
  /\ now = 0
  /\ vizData = [columns |-> <<>>]
  /\ vizOut = [kind |-> "unmounted"]

----------------------------------------------------------------------------
(* Handlers *)

\* onChange of the input (line 277).
onChange(v) ==
  /\ InputEnabled
  /\ v # userInput
  /\ userInput' = v
  /\ last' = [op |-> "onChange", t |-> 0]
  /\ UNCHANGED <<now, viz>>
  /\ UNCHANGED <<isLoading, chatHistory, sessionId, error, followUpQuestions,
                 querySessionId, calls, clears, turn, nClears>>

\* callBackendAPI up to its first await (lines 85-107).
callBackendAPI(query, viaForm, op) ==
  /\ turn < MaxTurns
  /\ isLoading' = TRUE
  /\ error' = NULL
  /\ followUpQuestions' = <<>>
  /\ chatHistory' = Append(chatHistory, UserMessage(query))
  /\ turn' = turn + 1
  /\ calls' = calls \cup {[turn |-> turn + 1, query |-> query,
                           sid |-> sessionId, pc |-> "query",
                           form |-> viaForm, idle |-> Idle,
                           status |-> Status,
                           at |-> Len(chatHistory) + 1]}
  /\ sessionId' = useEffect(TRUE, sessionId, querySessionId)
  /\ last' = [op |-> op, t |-> turn + 1]
  /\ UNCHANGED <<now, viz>>
  /\ UNCHANGED <<querySessionId, clears, nClears>>

\* handleSubmit (lines 185-191), reachable through the form (272-290).
handleSubmit ==
  /\ SendEnabled
  /\ ~Falsy(Trim(userInput))
  /\ callBackendAPI(userInput, TRUE, "handleSubmit")
  /\ UNCHANGED userInput

\* handleFollowUpClick (lines 193-196), reachable through a follow-up
\* button (247-261).
handleFollowUpClick(question) ==
  /\ question \in FollowUpButtons
  /\ userInput' = question
  /\ callBackendAPI(question, FALSE, "handleFollowUpClick")

\* callBackendAPI resumed with a reply that passes the checks of lines
\* 109-117: lines 119-135, up to the await inside fetchFollowUpQuestions.
QueryOk(c, reply) ==
  /\ c \in calls /\ c.pc = "query"
  /\ QueryThrown(reply) = NULL
  /\ LET adopt == Adopts(reply.data, c.sid)
         stored == IF adopt THEN reply.data.session_id ELSE querySessionId
         held == IF adopt THEN reply.data.session_id ELSE sessionId
     IN /\ querySessionId' = stored
        /\ sessionId' = useEffect(TRUE, held, stored)
  /\ chatHistory' = Append(chatHistory, SystemMessage(reply.data))
  /\ calls' = (calls \ {c}) \cup {[c EXCEPT !.pc = "followup"]}
  /\ last' = [op |-> "QueryOk", t |-> c.turn]
  /\ UNCHANGED <<now, viz>>
  /\ UNCHANGED <<userInput, isLoading, error, followUpQuestions, clears,
                 turn, nClears>>

\* Variant of QueryFail without the finally block: isLoading stays set.
QueryFailNoFinally(c, reply) ==
  /\ c \in calls /\ c.pc = "query"
  /\ QueryThrown(reply) # NULL
  /\ LET text == handleApiError(QueryThrown(reply))
     IN /\ error' = text
        /\ chatHistory' = Append(chatHistory, ErrorMessage(text))
  /\ userInput' = IF c.form THEN "" ELSE userInput
  /\ calls' = calls \ {c}
  /\ sessionId' = useEffect(TRUE, sessionId, querySessionId)
  /\ last' = [op |-> "QueryFail", t |-> c.turn]
  /\ UNCHANGED <<now, viz>>
  /\ UNCHANGED <<isLoading, followUpQuestions, querySessionId, clears, turn,
                 nClears>>

\* Variant of QueryFail that fetches follow-up questions after the catch.
QueryFailThenFollowUp(c, reply) ==
  /\ c \in calls /\ c.pc = "query"
  /\ QueryThrown(reply) # NULL
  /\ LET text == handleApiError(QueryThrown(reply))
     IN /\ error' = text
        /\ chatHistory' = Append(chatHistory, ErrorMessage(text))
  /\ calls' = (calls \ {c}) \cup {[c EXCEPT !.pc = "followup"]}
  /\ sessionId' = useEffect(TRUE, sessionId, querySessionId)
  /\ last' = [op |-> "QueryFail", t |-> c.turn]
  /\ UNCHANGED <<now, viz>>
  /\ UNCHANGED <<userInput, isLoading, followUpQuestions, querySessionId,
                 clears, turn, nClears>>

\* callBackendAPI resumed with a failure: catch and finally (lines 137-148),
\* then handleSubmit's setUserInput("") (line 189).
QueryFail(c, reply) ==
  /\ c \in calls /\ c.pc = "query"
  /\ QueryThrown(reply) # NULL
  /\ LET text == handleApiError(QueryThrown(reply))
     IN /\ error' = text
        /\ chatHistory' = Append(chatHistory, ErrorMessage(text))
  /\ isLoading' = FALSE
  /\ userInput' = IF c.form THEN "" ELSE userInput
  /\ calls' = calls \ {c}
  /\ sessionId' = useEffect(TRUE, sessionId, querySessionId)
  /\ last' = [op |-> "QueryFail", t |-> c.turn]
  /\ UNCHANGED <<now, viz>>
  /\ UNCHANGED <<followUpQuestions, querySessionId, clears, turn, nClears>>

\* fetchFollowUpQuestions resumed (lines 75-82), then the finally of
\* callBackendAPI (line 147) and handleSubmit's setUserInput("") (line 189).
fetchFollowUpQuestions(c, reply) ==
  /\ c \in calls /\ c.pc = "followup"
  /\ LET outcome == FollowUpOutcome(reply)
     IN /\ followUpQuestions' =
             CASE outcome = "set"   -> reply.data.followup_questions
               [] outcome = "catch" -> <<>>
               [] OTHER             -> followUpQuestions
        /\ last' = [op |-> "followUp_" \o outcome, t |-> c.turn]
        /\ UNCHANGED <<now, viz>>
  /\ isLoading' = FALSE
  /\ userInput' = IF c.form THEN "" ELSE userInput
  /\ calls' = calls \ {c}
  /\ sessionId' = useEffect(isLoading, sessionId, querySessionId)
  /\ UNCHANGED <<chatHistory, error, querySessionId, clears, turn, nClears>>

\* clearChat up to its await (lines 151-164).
clearChat ==
  IF NoSession(sessionId)
  THEN /\ last' = [op |-> "clearChat", t |-> 0]
       /\ UNCHANGED <<now, viz>>
       /\ UNCHANGED <<userInput, isLoading, chatHistory, sessionId, error,
                      followUpQuestions, querySessionId, calls, clears,
                      turn, nClears>>
  ELSE /\ nClears < MaxClears
       /\ isLoading' = TRUE
       /\ nClears' = nClears + 1
       /\ clears' = clears \cup {[n |-> nClears + 1, sid |-> sessionId]}
       /\ sessionId' = useEffect(~isLoading, sessionId, querySessionId)
       /\ last' = [op |-> "clearChat", t |-> nClears + 1]
       /\ UNCHANGED <<now, viz>>
       /\ UNCHANGED <<userInput, chatHistory, error, followUpQuestions,
                      querySessionId, calls, turn>>

\* The Clear Chat button (lines 215-223).
clickClearChat == ClearButtonEnabled /\ clearChat

\* Variant of ClearOk without line 177: the follow-ups survive the clear.
ClearOkKeepsFollowUps(k, reply) ==
  /\ k \in clears
  /\ ClearThrown(reply) = NULL
  /\ querySessionId' = NULL
  /\ sessionId' = useEffect(TRUE, "", NULL)
  /\ chatHistory' = <<>>
  /\ error' = NULL
  /\ isLoading' = FALSE
  /\ clears' = clears \ {k}
  /\ last' = [op |-> "ClearOk", t |-> k.n]
  /\ UNCHANGED <<now, viz>>
  /\ UNCHANGED <<userInput, followUpQuestions, calls, turn, nClears>>

\* Variant of ClearOk without line 173: the item is removed and the held
\* session id is kept.
ClearOkKeepsSessionId(k, reply) ==
  /\ k \in clears
  /\ ClearThrown(reply) = NULL
  /\ querySessionId' = NULL
  /\ sessionId' = useEffect(TRUE, sessionId, NULL)
  /\ chatHistory' = <<>>
  /\ error' = NULL
  /\ followUpQuestions' = <<>>
  /\ isLoading' = FALSE
  /\ clears' = clears \ {k}
  /\ last' = [op |-> "ClearOk", t |-> k.n]
  /\ UNCHANGED <<now, viz>>
  /\ UNCHANGED <<userInput, calls, turn, nClears>>

\* clearChat resumed with a reply that passes line 168: lines 172-177,
\* then the finally (line 181).
ClearOk(k, reply) ==
  /\ k \in clears
  /\ ClearThrown(reply) = NULL
  /\ querySessionId' = NULL
  /\ sessionId' = useEffect(TRUE, "", NULL)
  /\ chatHistory' = <<>>
  /\ error' = NULL
  /\ followUpQuestions' = <<>>
  /\ isLoading' = FALSE
  /\ clears' = clears \ {k}
  /\ last' = [op |-> "ClearOk", t |-> k.n]
  /\ UNCHANGED <<now, viz>>
  /\ UNCHANGED <<userInput, calls, turn, nClears>>

\* clearChat resumed with a failure: catch and finally (lines 178-182).
ClearFail(k, reply) ==
  /\ k \in clears
  /\ ClearThrown(reply) # NULL
  /\ error' = handleApiError(ClearThrown(reply))
  /\ isLoading' = FALSE
  /\ clears' = clears \ {k}
  /\ sessionId' = useEffect(isLoading, sessionId, querySessionId)
  /\ last' = [op |-> "ClearFail", t |-> k.n]
  /\ UNCHANGED <<now, viz>>
  /\ UNCHANGED <<userInput, chatHistory, followUpQuestions, querySessionId,
                 calls, turn, nClears>>

----------------------------------------------------------------------------
(* Specifications *)

QueryReturns ==
  \E c \in calls, reply \in QueryReplies :
    QueryOk(c, reply) \/ QueryFail(c, reply)

FollowUpReturns ==
  \E c \in calls, reply \in FollowUpReplies : fetchFollowUpQuestions(c, reply)

ClearReturns ==
  \E k \in clears, reply \in ClearReplies :
    ClearOk(k, reply) \/ ClearFail(k, reply)

Next ==
  \/ \E v \in Inputs : onChange(v)
  \/ handleSubmit
  \/ \E q \in FollowUpButtons : handleFollowUpClick(q)
  \/ clickClearChat
  \/ QueryReturns
  \/ FollowUpReturns
  \/ ClearReturns

\* The component driven through its rendered controls.
Spec == Init /\ [][Next]_vars

\* The same, with every issued backend call eventually answered.
FairSpec ==
  /\ Spec
  /\ WF_vars(QueryReturns)
  /\ WF_vars(FollowUpReturns)
  /\ WF_vars(ClearReturns)

\* The handlers called as functions: clearChat also when its button is not
\* rendered or is disabled.
NextDirect == Next \/ clearChat

SpecDirect == Init /\ [][NextDirect]_vars

----------------------------------------------------------------------------
(* The wall clock.  No handler reads a message id or compares two readings *)
(* of the clock, so the specifications above follow the component within   *)
(* one millisecond; the one below lets time pass between any two steps.    *)

\* A millisecond passes.
Tick ==
  /\ now < MaxClock
  /\ now' = now + 1
  /\ UNCHANGED viz
  /\ UNCHANGED <<userInput, isLoading, chatHistory, sessionId, error,
                 followUpQuestions, querySessionId, calls, clears, turn,
                 nClears, last>>

NextClock == Next \/ Tick

\* The component with time passing.
SpecClock == Init /\ [][NextClock]_vars

----------------------------------------------------------------------------
(* A second tab of the same origin: another JourneyUI instance, sharing    *)
(* the localStorage item and nothing else.  It is seen through what it     *)
(* does to the item.                                                       *)

\* The session ids the backend issues to the other tab.
OtherSessionIds == {"C"}

\* Line 122 run by the other tab: it persists the id of its response.
OtherTabAdopts(id) ==
  /\ id # querySessionId
  /\ querySessionId' = id
  /\ last' = [op |-> "OtherTabAdopts", t |-> 0]
  /\ UNCHANGED <<now, viz>>
  /\ UNCHANGED <<userInput, isLoading, chatHistory, sessionId, error,
                 followUpQuestions, calls, clears, turn, nClears>>

\* Line 172 run by the other tab: its successful clear removes the item.
OtherTabClears ==
  /\ querySessionId # NULL
  /\ querySessionId' = NULL
  /\ last' = [op |-> "OtherTabClears", t |-> 0]
  /\ UNCHANGED <<now, viz>>
  /\ UNCHANGED <<userInput, isLoading, chatHistory, sessionId, error,
                 followUpQuestions, calls, clears, turn, nClears>>

NextTabs ==
  \/ Next
  \/ \E id \in OtherSessionIds : OtherTabAdopts(id)
  \/ OtherTabClears

\* The component with a second tab open.
SpecTabs == Init /\ [][NextTabs]_vars

----------------------------------------------------------------------------
(* DataVisualization (src/valet.client/components/ui/DataVisualization.tsx) *)

\* Bounds of the tables the element is rendered with.
MaxRows == 2
MaxCols == 3

\* Bound of the wide tables: the number of series of one bar chart.
MaxSeries == 8

\* Cells of a result row: a JSON number, a JSON string, null, and what
\* reading past the end of a row gives.
NumCell(n) == [num |-> n]
StrCell(s) == [str |-> s]
NullCell == [null |-> TRUE]
Undefined == [undefined |-> TRUE]

\* A row is an array of cells; a malformed payload can hold null instead.
Row(cells) == [cells |-> cells]
NullRow == [null |-> TRUE]

\* JS number values.
Finite(n) == [n |-> n]
NaN == [nan |-> TRUE]
Infinity == [inf |-> TRUE]

\* Strings are read character by character.
CharAt(s, i) == SubSeq(s, i, i)
DropFirst(s, n) == SubSeq(s, n + 1, Len(s))
StartsWith(s, prefix) ==
  Len(s) >= Len(prefix) /\ SubSeq(s, 1, Len(prefix)) = prefix
Digits == "0123456789"
IsDigit(ch) == \E i \in 1..Len(Digits) : CharAt(Digits, i) = ch
DigitValue(ch) == (CHOOSE i \in 1..Len(Digits) : CharAt(Digits, i) = ch) - 1
UpperCase == "ABCDEFGHIJKLMNOPQRSTUVWXYZ"
LowerCase == "abcdefghijklmnopqrstuvwxyz"

RECURSIVE toLowerCase(_)
toLowerCase(s) ==
  IF s = "" THEN ""
  ELSE LET ch == CharAt(s, 1)
           lower == IF \E i \in 1..Len(UpperCase) : CharAt(UpperCase, i) = ch
                    THEN CharAt(LowerCase,
                                CHOOSE i \in 1..Len(UpperCase) :
                                  CharAt(UpperCase, i) = ch)
                    ELSE ch
       IN lower \o toLowerCase(DropFirst(s, 1))

includes(s, sub) ==
  \E i \in 1..(Len(s) - Len(sub) + 1) : SubSeq(s, i, i + Len(sub) - 1) = sub

RECURSIVE TrimStart(_)
TrimStart(s) ==
  IF s # "" /\ CharAt(s, 1) = " " THEN TrimStart(DropFirst(s, 1)) ELSE s

RECURSIVE TrimEnd(_)
TrimEnd(s) ==
  IF s # "" /\ CharAt(s, Len(s)) = " "
  THEN TrimEnd(SubSeq(s, 1, Len(s) - 1))
  ELSE s

\* Length of the longest prefix of s made of digits.
RECURSIVE DigitPrefix(_)
DigitPrefix(s) ==
  IF s # "" /\ IsDigit(CharAt(s, 1)) THEN 1 + DigitPrefix(DropFirst(s, 1)) ELSE 0

RECURSIVE DecimalValue(_)
DecimalValue(ds) ==
  IF ds = "" THEN 0
  ELSE 10 * DecimalValue(SubSeq(ds, 1, Len(ds) - 1))
       + DigitValue(CharAt(ds, Len(ds)))

Signed(s) == s # "" /\ CharAt(s, 1) \in {"-", "+"}
Unsigned(s) == IF Signed(s) THEN DropFirst(s, 1) ELSE s
Sign(s) == IF s # "" /\ CharAt(s, 1) = "-" THEN -1 ELSE 1

\* parseFloat on a string of digits, signs, letters and spaces (no
\* fraction or exponent characters): leading white space is skipped and
\* the longest numeric prefix is read.
parseFloatString(s) ==
  LET t == TrimStart(s)
      u == Unsigned(t)
      n == DigitPrefix(u)
  IN IF StartsWith(u, "Infinity") THEN Infinity
     ELSE IF n = 0 THEN NaN
     ELSE Finite(Sign(t) * DecimalValue(SubSeq(u, 1, n)))

\* Number(s), the coercion isFinite applies: the whole trimmed string must
\* be a numeric literal, and the empty string is 0.
StringToNumber(s) ==
  LET t == TrimEnd(TrimStart(s))
      u == Unsigned(t)
  IN IF t = "" THEN Finite(0)
     ELSE IF u = "Infinity" THEN Infinity
     ELSE IF u # "" /\ DigitPrefix(u) = Len(u)
          THEN Finite(Sign(t) * DecimalValue(u))
     ELSE NaN

IsNum(cell) == "num" \in DOMAIN cell
IsStr(cell) == "str" \in DOMAIN cell

\* parseFloat(value): a number is itself, null and undefined are first
\* turned into the strings "null" and "undefined".
parseFloat(cell) ==
  IF IsNum(cell) THEN Finite(cell.num)
  ELSE IF IsStr(cell) THEN parseFloatString(cell.str)
  ELSE NaN

\* isFinite(value): Number(null) is 0, Number(undefined) is NaN.
isFinite(cell) ==
  IF IsNum(cell) THEN TRUE
  ELSE IF IsStr(cell) THEN "n" \in DOMAIN StringToNumber(cell.str)
  ELSE cell = NullCell

\* isNumeric (lines 25-27).
isNumeric(cell) == parseFloat(cell) # NaN /\ isFinite(cell)

\* COLORS (line 16).
COLORS == <<"#4F46E5", "#2563EB", "#3B82F6", "#60A5FA", "#93C5FD">>

\* Variant of fill that gives every index past the palette its last color.
fillClamped(index) ==
  COLORS[IF index < Len(COLORS) THEN index + 1 ELSE Len(COLORS)]

\* The fill of series or slice index (0-based; lines 114, 148).
fill(index) == COLORS[(index % Len(COLORS)) + 1]

\* The props: results and columns are optional.
HasResults(data) == "results" \in DOMAIN data
HasColumns(data) == "columns" \in DOMAIN data

\* Variant of the guard of line 21 without the tests for a missing field.
EarlyReturnLengthOnly(data) ==
  \/ HasResults(data) /\ Len(data.results) = 0
  \/ HasColumns(data) /\ Len(data.columns) = 0

\* Line 21: nothing is rendered for missing or empty results or columns.
EarlyReturn(data) ==
  \/ ~HasResults(data)
  \/ ~HasColumns(data)
  \/ Len(data.results) = 0
  \/ Len(data.columns) = 0

\* row[index] with a 1-based index.
RowAt(row, index) ==
  IF index \in DOMAIN row.cells THEN row.cells[index] ELSE Undefined

\* Variant of isCountQuery that looks for 'count' in the name as written.
isCountQueryCaseSensitive(results, columns) ==
  IF Len(columns) # 1 THEN "false"
  ELSE IF columns[1] = NULL THEN "TypeError"
  ELSE IF ~includes(columns[1], "count") THEN "false"
  ELSE IF Len(results) # 1 THEN "false"
  ELSE IF results[1] = NullRow THEN "TypeError"
  ELSE IF Len(results[1].cells) = 1 THEN "true"
  ELSE "false"

\* isCountQuery (lines 29-36), with the TypeError its property reads can
\* raise on a null column name or a null first row.
isCountQuery(results, columns) ==
  IF Len(columns) # 1 THEN "false"
  ELSE IF columns[1] = NULL THEN "TypeError"
  ELSE IF ~includes(toLowerCase(columns[1]), "count") THEN "false"
  ELSE IF Len(results) # 1 THEN "false"
  ELSE IF results[1] = NullRow THEN "TypeError"
  ELSE IF Len(results[1].cells) = 1 THEN "true"
  ELSE "false"

\* Number(count) of line 42.
ToNumber(cell) ==
  IF IsNum(cell) THEN Finite(cell.num)
  ELSE IF IsStr(cell) THEN StringToNumber(cell.str)
  ELSE IF cell = NullCell THEN Finite(0)
  ELSE NaN

\* shouldVisualize (lines 66-70).
shouldVisualize(results) ==
  IF Len(results) = 0 THEN "false"
  ELSE IF results[1] = NullRow THEN "TypeError"
  ELSE IF Len(results[1].cells) = 0 THEN "false"
  ELSE "true"

\* The property key a column name becomes: String(null) is "null".
KeyOf(col) == IF col = NULL THEN "null" ELSE col

\* The keys in the order of their first assignment.
RECURSIVE InsertionOrder(_)
InsertionOrder(columns) ==
  IF columns = <<>> THEN <<>>
  ELSE LET init == InsertionOrder(SubSeq(columns, 1, Len(columns) - 1))
           key == KeyOf(columns[Len(columns)])
       IN IF \E i \in DOMAIN init : init[i] = key THEN init
          ELSE Append(init, key)

\* A key in canonical array-index form: a decimal numeral without leading
\* zeros.
IsArrayIndex(key) ==
  /\ key # ""
  /\ DigitPrefix(key) = Len(key)
  /\ key = "0" \/ CharAt(key, 1) # "0"

\* The keys of S in ascending numeric order.
RECURSIVE Ascending(_)
Ascending(S) ==
  IF S = {} THEN <<>>
  ELSE LET least == CHOOSE k \in S :
                      \A m \in S : DecimalValue(k) <= DecimalValue(m)
       IN <<least>> \o Ascending(S \ {least})

\* The strings of a sequence that are not array indices, in order.
RECURSIVE NamedKeys(_)
NamedKeys(keys) ==
  IF keys = <<>> THEN <<>>
  ELSE IF IsArrayIndex(Head(keys)) THEN NamedKeys(Tail(keys))
  ELSE <<Head(keys)>> \o NamedKeys(Tail(keys))

\* Object.keys of an object built by assigning the columns in order: the
\* array-index keys in ascending numeric order, then the other keys in the
\* order of their first assignment.
KeysOf(columns) ==
  LET inserted == InsertionOrder(columns)
  IN Ascending({inserted[i] : i \in {j \in DOMAIN inserted :
                                       IsArrayIndex(inserted[j])}})
     \o NamedKeys(inserted)

\* The value line 76 stores for one cell.
FormatCell(cell) ==
  IF isNumeric(cell)
  THEN NumCell(parseFloat(IF IsNum(cell) THEN cell ELSE StrCell(cell.str)).n)
  ELSE cell

\* One record of formatChartData (lines 73-79): a later column of the same
\* name overwrites the earlier value.
FormatRow(row, columns) ==
  [keys |-> KeysOf(columns),
   get |-> [k \in {KeyOf(columns[i]) : i \in DOMAIN columns} |->
              LET i == CHOOSE j \in DOMAIN columns :
                         /\ KeyOf(columns[j]) = k
                         /\ \A m \in DOMAIN columns :
                              KeyOf(columns[m]) = k => m <= j
              IN FormatCell(RowAt(row, i))]]

\* formatChartData (lines 72-80); row[index] on a null row is a TypeError.
formatChartData(results, columns) ==
  IF \E i \in DOMAIN results : results[i] = NullRow /\ Len(columns) > 0
  THEN [thrown |-> "TypeError"]
  ELSE [rows |-> [i \in DOMAIN results |-> FormatRow(results[i], columns)]]

\* Variant of determineChartType that draws a pie for any single row of two
\* or more columns.
determineChartTypeWidePie(results, columns) ==
  IF Len(results) > 1 /\ Len(columns) >= 2 THEN "bar"
  ELSE IF Len(results) = 1 /\ Len(columns) >= 2 THEN "pie"
  ELSE "none"

\* determineChartType (lines 82-94), called when shouldVisualize holds.
determineChartType(results, columns) ==
  IF Len(results) > 1 /\ Len(columns) >= 2 THEN "bar"
  ELSE IF Len(results) = 1 /\ Len(columns) = 2 THEN "pie"
  ELSE "none"

\* The keys of a record whose value is (is not) numeric, in key order.
RECURSIVE SelectKeys(_, _, _)
SelectKeys(keys, record, numeric) ==
  IF keys = <<>> THEN <<>>
  ELSE LET rest == SelectKeys(Tail(keys), record, numeric)
       IN IF isNumeric(record.get[Head(keys)]) = numeric
          THEN <<Head(keys)>> \o rest
          ELSE rest

\* renderBarChart (lines 96-122).
renderBarChart(chartData) ==
  IF Len(chartData) = 0 THEN [type |-> "null"]
  ELSE LET dataKeys == SelectKeys(chartData[1].keys, chartData[1], TRUE)
           others == SelectKeys(chartData[1].keys, chartData[1], FALSE)
       IN [type |-> "bar",
           data |-> chartData,
           dataKeys |-> dataKeys,
           categoryKey |-> IF others = <<>> THEN "" ELSE Head(others),
           fills |-> [i \in DOMAIN dataKeys |-> fill(i - 1)]]

\* Variant of renderPieChart without the return of line 130.
renderPieChartUnchecked(chartData) ==
  IF Len(chartData) = 0 THEN [type |-> "null"]
  ELSE LET values == SelectKeys(chartData[1].keys, chartData[1], TRUE)
           labels == SelectKeys(chartData[1].keys, chartData[1], FALSE)
       IN [type |-> "pie",
           data |-> chartData,
           valueKey |-> IF values = <<>> THEN NULL ELSE Head(values),
           labelKey |-> IF labels = <<>> THEN NULL ELSE Head(labels),
           fills |-> [i \in DOMAIN chartData |-> fill(i - 1)]]

\* renderPieChart (lines 124-156).
renderPieChart(chartData) ==
  IF Len(chartData) = 0 THEN [type |-> "null"]
  ELSE LET values == SelectKeys(chartData[1].keys, chartData[1], TRUE)
           labels == SelectKeys(chartData[1].keys, chartData[1], FALSE)
       IN IF values = <<>> \/ Head(values) = ""
             \/ labels = <<>> \/ Head(labels) = ""
          THEN [type |-> "null"]
          ELSE [type |-> "pie",
                data |-> chartData,
                valueKey |-> Head(values),
                labelKey |-> Head(labels),
                fills |-> [i \in DOMAIN chartData |-> fill(i - 1)]]

\* What the element renders: null, the single-bar count chart, the wrapper
\* div around a bar chart, a pie chart or nothing, or a thrown TypeError.
RenderNull == [kind |-> "null"]
Throws == [kind |-> "throw", error |-> "TypeError"]

\* The component function (lines 18-171).
DataVisualization(data) ==
  IF EarlyReturn(data) THEN RenderNull
  ELSE IF ~HasResults(data) \/ ~HasColumns(data) THEN Throws
  ELSE LET results == data.results
           columns == data.columns
           count == isCountQuery(results, columns)
       IN IF count = "TypeError" THEN Throws
          ELSE IF count = "true"
          THEN [kind |-> "count",
                data |-> <<[name |-> "Count",
                            value |-> ToNumber(RowAt(results[1], 1))]>>,
                fill |-> COLORS[1]]
          ELSE LET should == shouldVisualize(results)
               IN IF should = "TypeError" THEN Throws
                  ELSE IF should = "false" THEN RenderNull
                  ELSE LET chartData == formatChartData(results, columns)
                           chartType == determineChartType(results, columns)
                       IN IF "thrown" \in DOMAIN chartData THEN Throws
                          ELSE [kind |-> "div",
                                chartType |-> chartType,
                                chart |->
                                  CASE chartType = "bar" ->
                                         renderBarChart(chartData.rows)
                                    [] chartType = "pie" ->
                                         renderPieChart(chartData.rows)
                                    [] OTHER -> [type |-> "none"]]

\* Sequences over S of length at most n.
SeqsUpTo(S, n) == UNION {[1..k -> S] : k \in 0..n}

\* The tables the element is rendered with.  Column lists of at most
\* MaxCols names, alternating two names or repeating one.  At most MaxRows
\* rows, each null, empty, or one cell shorter, as long or one cell longer
\* than the column list.  Results or columns possibly missing.  And tables
\* with the other kinds of cell.
CoreCells == {StrCell("5"), StrCell("red")}
ColumnNames == {"Count", "color"}
ColumnLists ==
  {cs \in SeqsUpTo(ColumnNames, MaxCols) :
     \A i \in 1..(Len(cs) - 2) : cs[i] = cs[i + 2]}
RowLengths(n) == {k \in 0..MaxCols : k = 0 \/ (k >= n - 1 /\ k <= n + 1)}
CoreRows(n) ==
  {Row(cells) : cells \in UNION {[1..k -> CoreCells] : k \in RowLengths(n)}}
  \cup {NullRow}

OtherCells ==
  {NumCell(3), NullCell, StrCell(""), StrCell(" 7 "), StrCell("3px"),
   StrCell("-2"), StrCell("Infinity"), StrCell("NaN")}

OtherData ==
  {[results |-> <<Row(<<c>>)>>, columns |-> <<n>>]
     : c \in OtherCells, n \in {"total_count", "color"}}
  \cup {[results |-> <<Row(<<StrCell("red"), c>>)>>,
         columns |-> <<"color", "Count">>] : c \in OtherCells}
  \cup {[results |-> <<Row(<<StrCell("red"), c>>), Row(<<StrCell("blue"), d>>)>>,
         columns |-> <<"color", "Count">>] : c \in OtherCells, d \in OtherCells}
  \cup {[results |-> <<Row(<<StrCell("5")>>)>>, columns |-> <<NULL>>]}
  \cup {[results |-> <<Row(<<a, b, c>>), Row(<<a, b, c>>)>>,
         columns |-> <<"color", "2021", "2020">>]
          : a \in CoreCells, b \in CoreCells, c \in CoreCells}
  \cup {[results |-> <<Row(<<a, b>>)>>, columns |-> <<"color", "2021">>]
          : a \in CoreCells, b \in CoreCells}

\* Wide tables: two equal rows of up to MaxSeries cells under as many
\* columns of different names (s01, s02, ...).
SeriesName(j) ==
  "s" \o CharAt(Digits, (j \div 10) + 1) \o CharAt(Digits, (j % 10) + 1)

WideTables ==
  UNION {{[results |-> <<Row(cells), Row(cells)>>,
           columns |-> [j \in 1..k |-> SeriesName(j)]]
            : cells \in [1..k -> CoreCells]} : k \in 2..MaxSeries}

\* The tables under one column list.
Tables(cs) ==
  {[results |-> rs, columns |-> cs]
     : rs \in SeqsUpTo(CoreRows(Len(cs)), MaxRows)}

\* Props without results or without columns.
PartialData ==
  {[results |-> rs] : rs \in SeqsUpTo(CoreRows(1), MaxRows)}
  \cup {[columns |-> cs] : cs \in ColumnLists}

\* A DataVisualization element is created with its props ...
InitViz ==
  /\ userInput = ""
  /\ isLoading = FALSE
  /\ chatHistory = <<>>
  /\ querySessionId = NULL
  /\ sessionId = ""
  /\ error = NULL
  /\ followUpQuestions = <<>>
  /\ calls = {}
  /\ clears = {}
  /\ turn = 0
  /\ nClears = 0
  /\ last = [op |-> "mount", t |-> 0]
  /\ now = 0
  /\ \/ \E cs \in ColumnLists : vizData \in Tables(cs)
     \/ vizData \in PartialData
     \/ vizData \in OtherData
     \/ vizData \in WideTables
  /\ vizOut = [kind |-> "unmounted"]

\* ... and rendered.
Render ==
  /\ vizOut = [kind |-> "unmounted"]
  /\ vizOut' = DataVisualization(vizData)
  /\ last' = [op |-> "Render", t |-> 0]
  /\ UNCHANGED <<userInput, isLoading, chatHistory, sessionId, error,
                 followUpQuestions, querySessionId, calls, clears, turn,
                 nClears, now, vizData>>

NextViz == Render

\* The visualization of one table.
SpecViz == InitViz /\ [][NextViz]_vars

----------------------------------------------------------------------------
(* Properties of the conversation session *)

\* A callBackendAPI invocation is suspended at the await of POST /query.
QueryInFlight == \E c \in calls : c.pc = "query"

\* chatHistory' is chatHistory with exactly one message appended.
AppendsOne ==
  /\ Len(chatHistory') = Len(chatHistory) + 1
  /\ SubSeq(chatHistory', 1, Len(chatHistory)) = chatHistory

\* C1: while a primary query is in flight, no further submit (form or
\* follow-up button) is accepted: no step starts another callBackendAPI
\* invocation, which would append a user message and issue a second
\* POST /query.
C1_NoSubmitWhileQueryInFlight ==
  [][QueryInFlight => turn' = turn /\ ~(\E c \in calls' \ calls : c.pc = "query")]_vars

\* C2: a follow-up result is written into followUpQuestions only for the
\* turn started last: once a later turn has started, the result of an older
\* turn's follow-up fetch is discarded.
C2_StaleFollowUpDiscarded ==
  last.op = "followUp_set" => last.t = turn

FailureText(r) ==
  IF r.rejected THEN r.message
  ELSE IF ~r.ok THEN "API request failed with status 500"
  ELSE IF r.data.error # NULL THEN r.data.error
  ELSE "Failed to process query"

\* C4: a failed primary query appends exactly one system message whose
\* content is the error text, sets error to that text, keeps every earlier
\* message, and leaves the held and the persisted session id unchanged.
C4_QueryFailure ==
  [][\A c \in calls, r \in QueryReplies :
       (/\ c.pc = "query"
        /\ (r.rejected \/ ~r.ok \/ ~r.data.success)
        /\ (QueryOk(c, r) \/ QueryFail(c, r)))
       => /\ AppendsOne
          /\ chatHistory'[Len(chatHistory')].type = "system"
          /\ chatHistory'[Len(chatHistory')].content = FailureText(r)
          /\ ~chatHistory'[Len(chatHistory')].responseData
          /\ error' = FailureText(r)
          /\ sessionId' = sessionId
          /\ querySessionId' = querySessionId]_vars

\* C4 witness: a query has just failed in a session that holds an id and
\* has earlier messages.
C4_Witness ==
  /\ last.op = "QueryFail"
  /\ Len(chatHistory) >= 4
  /\ ~Falsy(sessionId)
  /\ error = chatHistory[Len(chatHistory)].content

\* C5: right after a successful clear the conversation state is in its
\* initial empty form and the persisted id is erased.
C5_ClearSuccess ==
  last.op = "ClearOk" =>
    /\ sessionId = ""
    /\ chatHistory = <<>>
    /\ followUpQuestions = <<>>
    /\ error = NULL
    /\ ~isLoading
    /\ querySessionId = NULL

\* C5 witness: a clear has just succeeded after at least one turn.
C5_Witness == last.op = "ClearOk" /\ turn >= 1

\* C6: a failed clear-context call leaves the held id, the persisted id,
\* the chat history and the follow-ups as they were, and sets the error.
C6_ClearFailure ==
  [][\A k \in clears, r \in ClearReplies :
       (/\ (r.rejected \/ ~r.ok \/ ~r.data.success)
        /\ (ClearOk(k, r) \/ ClearFail(k, r)))
       => /\ sessionId' = sessionId
          /\ querySessionId' = querySessionId
          /\ chatHistory' = chatHistory
          /\ followUpQuestions' = followUpQuestions
          /\ error' # NULL]_vars

\* C6 witness: a clear has just failed in a session with an id, messages
\* and follow-ups.
C6_Witness ==
  /\ last.op = "ClearFail"
  /\ ~Falsy(sessionId)
  /\ chatHistory # <<>>
  /\ followUpQuestions # <<>>
  /\ error # NULL

\* C7: clearChat called while no session id is held changes nothing and
\* issues no clear-context call.
C7_ClearNoSession ==
  [][(Falsy(sessionId) /\ last'.op = "clearChat")
       => UNCHANGED <<userInput, isLoading, chatHistory, sessionId, error,
                      followUpQuestions, querySessionId, calls, clears,
                      turn, nClears>>]_vars

\* C7 witness: clearChat has just returned early in a session that has
\* messages and no id.
C7_Witness ==
  /\ last = [op |-> "clearChat", t |-> 0]
  /\ Falsy(sessionId)
  /\ chatHistory # <<>>
  /\ clears = {}

\* The turn-shape parts of C8, for a turn accepted while the session was
\* idle (field idle of its invocation record).
TurnAccepted ==
  [][(Idle /\ turn' # turn)
       => /\ AppendsOne
          /\ chatHistory'[Len(chatHistory')].type = "user"
          /\ chatHistory'[Len(chatHistory')].content \in {userInput, userInput'}
          /\ isLoading']_vars

TurnRunning ==
  \A c \in calls : c.idle =>
    /\ isLoading
    /\ chatHistory[c.at].type = "user"
    /\ chatHistory[c.at].content = c.query
    /\ c.pc = "query" => Len(chatHistory) = c.at
    /\ c.pc = "followup" =>
         /\ Len(chatHistory) = c.at + 1
         /\ chatHistory[c.at + 1].type = "system"
         /\ chatHistory[c.at + 1].content = "answer"

TurnEnds ==
  [][\A c \in calls :
       (c.idle /\ \A d \in calls' : d.turn # c.turn)
       => /\ ~isLoading'
          /\ Len(chatHistory') = c.at + 1
          /\ chatHistory'[c.at].type = "user"
          /\ chatHistory'[c.at + 1].type = "system"
          /\ c.pc = "query" =>
               error' # NULL /\ chatHistory'[c.at + 1].content = error'
          /\ c.pc = "followup" =>
               error' = NULL /\ chatHistory' = chatHistory]_vars

TurnCompletes ==
  \A t \in 1..MaxTurns :
    (\E c \in calls : c.turn = t /\ c.idle)
      ~> (turn >= t /\ \A c \in calls : c.turn # t)

C9_FollowUpFailureSuppressed ==
  [][\A c \in calls, r \in FollowUpReplies :
       (/\ fetchFollowUpQuestions(c, r)
        /\ (\/ r.rejected
            \/ ~r.data.success
            \/ "followup_questions" \notin DOMAIN r.data
            \/ r.data.followup_questions = <<>>))
       => /\ error' = error
          /\ chatHistory' = chatHistory
          /\ followUpQuestions' = <<>>]_vars

----------------------------------------------------------------------------
(* Properties of the visualization *)

\* The table has no rows or no columns, or one of the two is missing.
EmptyTable(data) ==
  \/ ~HasResults(data)
  \/ ~HasColumns(data)
  \/ data.results = <<>>
  \/ data.columns = <<>>

\* C10: for a table whose rows or columns are empty or missing, the element
\* renders no visualization: the component returns null.
C10_EmptyTableNone ==
  (last.op = "Render" /\ EmptyTable(vizData)) => vizOut = RenderNull

\* C10 witness: a rendered table of MaxRows non-empty rows under an empty
\* list of columns.
C10_Witness ==
  /\ last.op = "Render"
  /\ HasResults(vizData) /\ HasColumns(vizData)
  /\ vizData.columns = <<>>
  /\ Len(vizData.results) = MaxRows
  /\ \A i \in DOMAIN vizData.results :
       vizData.results[i] # NullRow /\ vizData.results[i].cells # <<>>
  /\ vizOut = RenderNull

\* A table that keeps the data contract: results and columns present, every
\* column named, every row an array with one cell per column.
WellFormed(data) ==
  /\ HasResults(data) /\ HasColumns(data)
  /\ \A j \in DOMAIN data.columns : data.columns[j] # NULL
  /\ \A i \in DOMAIN data.results :
       /\ data.results[i] # NullRow
       /\ Len(data.results[i].cells) = Len(data.columns)

\* The single-cell count case: one row, one column named like a count.
CountShape(data) ==
  /\ Len(data.results) = 1
  /\ Len(data.columns) = 1
  /\ includes(toLowerCase(data.columns[1]), "count")

\* The strategy for a table of so many rows and columns.
Strategy(rows, cols) ==
  IF rows > 1 /\ cols >= 2 THEN "bar"
  ELSE IF rows = 1 /\ cols = 2 THEN "pie"
  ELSE "none"

\* C11: for a non-empty table that keeps the data contract and is not the
\* single-cell count case, the chart type is bar exactly for several rows
\* of two or more columns, pie exactly for one row of two columns, and none
\* for every other shape; it is a function of the two counts alone.
C11_ShapeClassification ==
  (/\ last.op = "Render"
   /\ WellFormed(vizData)
   /\ ~EmptyTable(vizData)
   /\ ~CountShape(vizData))
  => /\ vizOut.kind = "div"
     /\ vizOut.chartType =
          Strategy(Len(vizData.results), Len(vizData.columns))

\* C11 witness: one row of three columns has been rendered with no chart.
C11_Witness ==
  /\ last.op = "Render"
  /\ WellFormed(vizData)
  /\ Len(vizData.results) = 1
  /\ Len(vizData.columns) = 3
  /\ vizOut.kind = "div"
  /\ vizOut.chartType = "none"

\* One row of one cell under one column named like a count, the cell
\* classified numeric.
NumericCount(data) ==
  /\ HasResults(data) /\ HasColumns(data)
  /\ Len(data.columns) = 1
  /\ data.columns[1] # NULL
  /\ includes(toLowerCase(data.columns[1]), "count")
  /\ Len(data.results) = 1
  /\ data.results[1] # NullRow
  /\ Len(data.results[1].cells) = 1
  /\ isNumeric(data.results[1].cells[1])

\* C12: one row of one numeric cell under a column whose name contains
\* "count" in any letter case renders the single-metric chart, carrying the
\* cell's numeric value.
C12_SingleMetric ==
  (last.op = "Render" /\ NumericCount(vizData))
  => /\ vizOut.kind = "count"
     /\ vizOut.data = <<[name |-> "Count",
                         value |-> parseFloat(vizData.results[1].cells[1])]>>

\* C12 witness: the cell "5" under the column "Count" has been rendered as
\* the metric 5.
C12_Witness ==
  /\ last.op = "Render"
  /\ NumericCount(vizData)
  /\ vizData.columns = <<"Count">>
  /\ vizData.results[1].cells[1] = StrCell("5")
  /\ vizOut.kind = "count"
  /\ vizOut.data[1].value = Finite(5)

\* The element shows no chart: it is null, or its wrapper div is empty.
NoChart(out) ==
  \/ out.kind = "null"
  \/ out.kind = "div" /\ out.chart.type \in {"none", "null"}

\* A non-empty table of arrays in which some row has more or fewer cells
\* than there are columns.
SchemaMismatch(data) ==
  /\ ~EmptyTable(data)
  /\ \A i \in DOMAIN data.results : data.results[i] # NullRow
  /\ \E i \in DOMAIN data.results :
       Len(data.results[i].cells) # Len(data.columns)

\* C13: when some row's length differs from the number of columns, no chart
\* is rendered and no error is raised.
C13_SchemaMismatchNone ==
  (last.op = "Render" /\ SchemaMismatch(vizData)) => NoChart(vizOut)

\* Several rows of two or more columns, with every cell of the first row
\* classified numeric.
AllNumericFirstRow(data) ==
  /\ WellFormed(data)
  /\ Len(data.results) > 1
  /\ Len(data.columns) >= 2
  /\ \A j \in DOMAIN data.results[1].cells :
       isNumeric(data.results[1].cells[j])

\* C14: a multi-row table of two or more columns whose first record has no
\* categorical value renders no bar chart.
C14_BarNeedsCategory ==
  (last.op = "Render" /\ AllNumericFirstRow(vizData)) => NoChart(vizOut)

\* One row (an array) under two named columns.
OneRowTwoColumns(data) ==
  /\ HasResults(data) /\ HasColumns(data)
  /\ Len(data.results) = 1
  /\ data.results[1] # NullRow
  /\ Len(data.columns) = 2
  /\ \A j \in DOMAIN data.columns : data.columns[j] # NULL

\* C15: for one row under two columns, a pie is drawn only when exactly one
\* of the two values is numeric, with that value's column as valueKey and
\* the other column as labelKey; when both or neither are numeric no chart
\* is drawn.
C15_PiePartition ==
  (last.op = "Render" /\ OneRowTwoColumns(vizData))
  => LET first == isNumeric(RowAt(vizData.results[1], 1))
         second == isNumeric(RowAt(vizData.results[1], 2))
         pie == vizOut.kind = "div" /\ vizOut.chart.type = "pie"
     IN /\ pie => /\ first # second
                  /\ vizOut.chart.valueKey =
                       vizData.columns[IF first THEN 1 ELSE 2]
                  /\ vizOut.chart.labelKey =
                       vizData.columns[IF first THEN 2 ELSE 1]
        /\ (first = second) => NoChart(vizOut)

\* C15 witness: the row ("red", "5") under the columns color and Count has
\* been rendered as a pie labelled by color and valued by Count.
C15_Witness ==
  /\ last.op = "Render"
  /\ OneRowTwoColumns(vizData)
  /\ vizData.columns = <<"color", "Count">>
  /\ vizData.results[1] = Row(<<StrCell("red"), StrCell("5")>>)
  /\ vizOut.kind = "div"
  /\ vizOut.chart.type = "pie"
  /\ vizOut.chart.labelKey = "color"
  /\ vizOut.chart.valueKey = "Count"
  /\ vizOut.chart.data[1].get["Count"] = NumCell(5)

\* C16: rendering the element completes for every payload, however
\* malformed; it never throws.
C16_NeverThrows == last.op = "Render" => vizOut.kind # "throw"

----------------------------------------------------------------------------
(* Properties of two tabs *)

\* C17: no action of the other tab changes the session id this tab holds:
\* this tab never comes to hold an id that was issued to the other tab only.
C17_TabsIndependent == sessionId \notin OtherSessionIds

----------------------------------------------------------------------------
(* Properties of the chat history *)

\* The step is the completion of a successful clear.
ClearSucceeds == clears' # clears /\ last'.op = "ClearOk"

\* The messages of one type among the first n of the history.
CountOf(type, n) ==
  Cardinality({i \in 1..n : chatHistory[i].type = type})

\* Every step other than a successful clear keeps the history as a prefix
\* of the new history.
HistoryAppendOnly ==
  [][~ClearSucceeds =>
       /\ Len(chatHistory') >= Len(chatHistory)
       /\ SubSeq(chatHistory', 1, Len(chatHistory)) = chatHistory]_vars

\* C19: the history is ordered by turns: each turn's system message comes
\* after that turn's user message, so that up to any position the history
\* holds at least as many user messages as system messages.  (The other
\* half of the claim is HistoryAppendOnly.)
C19_SystemAfterUser ==
  \A n \in DOMAIN chatHistory : CountOf("system", n) <= CountOf("user", n)

----------------------------------------------------------------------------
(* Properties of the message ids *)

\* C18: message ids strictly increase in history order; in particular no
\* two messages of the history have the same id.
C18_MessageIdsIncrease ==
  \A i, j \in DOMAIN chatHistory :
    i < j => chatHistory[i].id < chatHistory[j].id

----------------------------------------------------------------------------
(* Properties of the error state *)

\* A submit is accepted in this step.
SubmitAccepted == turn' = turn + 1

\* The turn of call c completes with success in this step: its follow-up
\* fetch has returned and the invocation has ended.
TurnSucceeds(c) == c \in calls /\ c.pc = "followup" /\ c \notin calls'

\* C20: errors are not sticky: a submit accepted while the status is Error
\* clears the error and shows the status Awaiting, and when the turn of that
\* submit succeeds no error is shown.
C20_ErrorsNotSticky ==
  [][/\ (SubmitAccepted /\ Status = "Error")
          => (error' = NULL /\ Status' = "Awaiting")
     /\ \A c \in calls :
          (TurnSucceeds(c) /\ c.status = "Error") => error' = NULL]_vars

\* The same for a submit accepted with no backend operation in progress.
ErrorsNotStickyWhenIdle ==
  [][\A c \in calls :
       (TurnSucceeds(c) /\ c.status = "Error" /\ c.idle)
         => (error' = NULL /\ Status' = "Idle")]_vars

----------------------------------------------------------------------------
(* Properties of the bar chart *)

\* A bar chart has been rendered for a table of differently named columns.
BarOfDistinctColumns ==
  /\ last.op = "Render"
  /\ vizOut.kind = "div"
  /\ vizOut.chart.type = "bar"
  /\ \A j, k \in DOMAIN vizData.columns :
       vizData.columns[j] = vizData.columns[k] => j = k

\* The columns whose cell in the first row is numeric.
NumericColumns(data) ==
  {j \in DOMAIN data.columns : isNumeric(RowAt(data.results[1], j))}

\* The position of a name in the column list.
ColumnOf(data, name) == CHOOSE j \in DOMAIN data.columns : data.columns[j] = name

\* C25: the bar chart has one record per row, in row order, with one entry
\* per column in column order (numeric cells as numbers); its series keys
\* are the columns whose value in the first record is numeric, in column
\* order, and its category key is the first column whose value in the
\* first record is not; the later rows take no part in the partition.
C25_FirstRecordPartition ==
  BarOfDistinctColumns =>
    LET data == vizData
        chart == vizOut.chart
        numeric == NumericColumns(data)
        others == DOMAIN data.columns \ numeric
    IN /\ Len(chart.data) = Len(data.results)
       /\ \A i \in DOMAIN chart.data :
            /\ chart.data[i].keys = data.columns
            /\ \A j \in DOMAIN data.columns :
                 chart.data[i].get[data.columns[j]] =
                   LET cell == RowAt(data.results[i], j)
                   IN IF isNumeric(cell) THEN NumCell(parseFloat(cell).n)
                      ELSE cell
       /\ Len(chart.dataKeys) = Cardinality(numeric)
       /\ {ColumnOf(data, chart.dataKeys[a]) : a \in DOMAIN chart.dataKeys}
            = numeric
       /\ \A a, b \in DOMAIN chart.dataKeys :
            a < b => ColumnOf(data, chart.dataKeys[a])
                       < ColumnOf(data, chart.dataKeys[b])
       /\ others # {} =>
            /\ ColumnOf(data, chart.categoryKey) \in others
            /\ \A j \in others : ColumnOf(data, chart.categoryKey) <= j

----------------------------------------------------------------------------
(* Properties of the colors *)

\* The element is a bar chart of more series than the palette has colors.
ManySeries ==
  /\ last.op = "Render"
  /\ vizOut.kind = "div"
  /\ vizOut.chart.type = "bar"
  /\ Len(vizOut.chart.fills) > Len(COLORS)

\* C21: the palette holds at least five different colors, the series of
\* index i (from 0) is filled with palette[i mod paletteLength], and so the
\* series i and i + paletteLength have the same color.
C21_ColorsPeriodic ==
  /\ Len(COLORS) >= 5
  /\ Cardinality({COLORS[i] : i \in DOMAIN COLORS}) = Len(COLORS)
  /\ (last.op = "Render" /\ vizOut.kind = "div" /\ vizOut.chart.type = "bar")
       => \A i \in DOMAIN vizOut.chart.fills :
            /\ vizOut.chart.fills[i] = COLORS[((i - 1) % Len(COLORS)) + 1]
            /\ (i + Len(COLORS)) \in DOMAIN vizOut.chart.fills
                 => vizOut.chart.fills[i] = vizOut.chart.fills[i + Len(COLORS)]

\* C21 witness: a bar chart of enough series that the first color is used
\* again, for a series that is not in the same column position.
C21_Witness ==
  /\ ManySeries
  /\ vizOut.chart.fills[1] = vizOut.chart.fills[Len(COLORS) + 1]
  /\ vizOut.chart.categoryKey # ""
  /\ vizOut.chart.dataKeys[Len(COLORS) + 1] # vizData.columns[Len(COLORS) + 1]

----------------------------------------------------------------------------
(* Properties of the follow-up fetch *)

\* C22: the follow-up request issued after a successful primary response
\* carries the turn's query text and the session id the session holds once
\* that response has been processed.
C22_FollowUpCarriesSession ==
  last.op = "QueryOk" =>
    \A c \in calls :
      (c.turn = last.t /\ c.pc = "followup") =>
        /\ FollowUpRequest(c).query = c.query
        /\ FollowUpRequest(c).session_id = sessionId

\* Only follow-up fetches are in flight: no primary query, no clear.
OnlyFollowUpsPending ==
  /\ clears = {}
  /\ \A c \in calls : c.pc = "followup"

\* C23: once the system message of a successful primary response is
\* appended the session is Idle and accepts a submit, whether or not the
\* follow-up fetch has returned.
C23_IdleBeforeFollowUp ==
  (last.op = "QueryOk" /\ OnlyFollowUpsPending)
    => (Status # "Awaiting" /\ InputEnabled)

\* The follow-up fetches in flight, and those of one turn.
FollowUpsPending == {c \in calls : c.pc = "followup"}
FollowUpsOf(t) == {c \in FollowUpsPending : c.turn = t}

\* C24: a follow-up fetch is issued only in the step that completes the
\* primary query of its turn with success and appends its system message;
\* that step issues exactly one; the step in which a primary query fails
\* issues none.
C24_FollowUpOnlyAfterSuccess ==
  [][/\ \A f \in FollowUpsPending' \ FollowUpsPending :
          /\ [f EXCEPT !.pc = "query"] \in calls
          /\ [f EXCEPT !.pc = "query"] \notin calls'
          /\ last' = [op |-> "QueryOk", t |-> f.turn]
          /\ AppendsOne
          /\ chatHistory'[Len(chatHistory')].type = "system"
          /\ chatHistory'[Len(chatHistory')].responseData
     /\ (last' # last /\ last'.op = "QueryOk")
          => /\ Cardinality(FollowUpsPending' \ FollowUpsPending) = 1
             /\ Cardinality({c \in FollowUpsPending' : c.turn = last'.t}) = 1
     /\ (last' # last /\ last'.op = "QueryFail")
          => /\ FollowUpsPending' \subseteq FollowUpsPending
             /\ \A c \in calls' : c.turn # last'.t]_vars

\* C24 witness: the second turn's follow-up fetch is the only one in
\* flight, after a first turn that failed.
C24_Witness ==
  /\ last = [op |-> "QueryOk", t |-> 2]
  /\ Len(chatHistory) = 4
  /\ ~chatHistory[2].responseData
  /\ chatHistory[4].responseData
  /\ Cardinality(FollowUpsPending) = 1
  /\ FollowUpsOf(1) = {}

----------------------------------------------------------------------------
(* Properties of the loading flag and of the session id *)

\* C26: the loading flag covers every backend operation: whenever a
\* primary query or a clear-context call is in flight isLoading is true,
\* and a primary query and a clear are never in flight together.
C26_LoadingCoversBackend ==
  /\ (QueryInFlight \/ clears # {}) => isLoading
  /\ ~(QueryInFlight /\ clears # {})

\* The first half of C26 alone.
LoadingWhileInFlight == (QueryInFlight \/ clears # {}) => isLoading

\* The second half of C26 alone.
QueryAndClearExclusive == ~(QueryInFlight /\ clears # {})

\* The persisted session id, an absent item counting as the empty id.
Persisted == IF querySessionId = NULL THEN "" ELSE querySessionId

\* The step completes a primary query or a clear.
Completes(op) == last' # last /\ last'.op = op

\* C27: in a single tab, after the initial load and after every completed
\* query or clear, the held session id equals the persisted one, an absent
\* item counting as the empty id; a completed query either adopts an id
\* into both or changes neither, a successful clear erases both, and a
\* failed query or a failed clear changes neither.
C27_HeldEqualsPersisted ==
  /\ sessionId = Persisted
  /\ [][/\ (\E op \in {"QueryOk", "QueryFail", "ClearOk", "ClearFail"} :
              Completes(op)) => sessionId' = Persisted'
        /\ Completes("QueryOk") =>
             \/ UNCHANGED <<sessionId, querySessionId>>
             \/ /\ sessionId' # sessionId
                /\ querySessionId' = sessionId'
                /\ ~Falsy(sessionId')
        /\ Completes("ClearOk") => sessionId' = "" /\ querySessionId' = NULL
        /\ (Completes("QueryFail") \/ Completes("ClearFail")) =>
             UNCHANGED <<sessionId, querySessionId>>]_vars

\* In every state of a single tab the held id equals the persisted one.
HeldEqualsPersistedAlways == sessionId = Persisted

\* C27 witness: a successful primary response has replaced the id the
\* turn started with, in memory and in the store.
C27_Witness ==
  /\ last.op = "QueryOk"
  /\ sessionId = querySessionId
  /\ \E c \in calls :
       /\ c.turn = last.t
       /\ c.pc = "followup"
       /\ ~Falsy(c.sid)
       /\ c.sid # sessionId

====
